---- MODULE Spec2Model ----
(***************************************************************************)
(* Model of server/controllers/waterTestController.js: the six request     *)
(* handlers of the water-test controller, run as concurrent requests       *)
(* against one store (prisma), with the SMS, WhatsApp and health-card      *)
(* collaborators as calls that either resolve or reject.                   *)
(*                                                                         *)
(* One action is one stretch of handler code between two awaits: the       *)
(* awaited call takes effect in the store and the handler runs on to the   *)
(* next awaited call or to its response.  Requests interleave at awaits.   *)
(*                                                                         *)
(* Two clients send the requests.  A client sends one request at a time:   *)
(* it sends its next request after the response to the one before, whose   *)
(* record it then replaces.                                                *)
(***************************************************************************)
EXTENDS Integers, Sequences, FiniteSets, TLC

(* ------------------------------ bounds --------------------------------- *)

\* number of requests received in one behaviour
MaxReq == 2

\* the clients; each has at most one request in flight
Reqs == {1, 2}

(* --------------------------- JavaScript values ------------------------- *)

\* a request-body value: its typeof tag and its text
JUndef == [t |-> "undefined", v |-> ""]
JNull == [t |-> "null", v |-> ""]
JStr(s) == [t |-> "string", v |-> s]
JNum(s) == [t |-> "number", v |-> s]
JDate(s) == [t |-> "date", v |-> s]

\* JavaScript truthiness, as used by `!x`, `if (x)` and `x || null`
Truthy(x) ==
  CASE x.t = "string" -> x.v # ""
    [] x.t = "number" -> x.v \notin {"0", "NaN"}
    [] x.t = "date" -> TRUE
    [] OTHER -> FALSE

\* x || null
OrNull(x) == IF Truthy(x) THEN x ELSE JNull

\* String(quality).toLowerCase() over the quality texts of the model
ToLowerCase(s) ==
  CASE s = "Medium" -> "medium"
    [] s = "MEDIUM" -> "medium"
    [] s = "HIGH" -> "high"
    [] s = "High" -> "high"
    [] s = "Good" -> "good"
    [] s = "GOOD" -> "good"
    [] s = "Severe" -> "severe"
    [] OTHER -> s

NormalizedQuality(q) == ToLowerCase(q.v)

Qualities == {"good", "medium", "high"}

\* new Date(dateTime): the instant a date text denotes, or Invalid Date
InvalidDate == JDate("Invalid Date")

NewDate(x) ==
  CASE x.v = "2025-09-11T10:00:00Z" -> JDate("2025-09-11T10:00:00.000Z")
    [] x.v = "2025-09-11T15:30:00+05:30" -> JDate("2025-09-11T10:00:00.000Z")
    [] x.v = "2025-09-12T04:00:00Z" -> JDate("2025-09-12T04:00:00.000Z")
    [] OTHER -> InvalidDate

(* ------------------------------- users --------------------------------- *)

Digits == {"0", "1", "2", "3", "4", "5", "6", "7", "8", "9"}

\* /^\+\d{10,15}$/.test(number), on the characters of the number
MatchesE164(chars) ==
  /\ Len(chars) >= 1
  /\ chars[1] = "+"
  /\ Len(chars) - 1 >= 10
  /\ Len(chars) - 1 <= 15
  /\ \A i \in 2..Len(chars) : chars[i] \in Digits

\* a user's number column: a string (its characters) or null
NumStr(chars) == [t |-> "string", chars |-> chars]
NumNull == [t |-> "null", chars |-> <<>>]

isValidPhoneNumber(number) ==
  number.t = "string" /\ MatchesE164(number.chars)

\* the send guard without the format test
Deliverable_AnyNumber(number) ==
  number.t = "string" /\ number.chars # <<>>

\* leader.number && isValidPhoneNumber(leader.number)
Deliverable(number) ==
  /\ number.t = "string"
  /\ number.chars # <<>>
  /\ isValidPhoneNumber(number)

\* the rows of the user table, in the order findMany returns them
Users ==
  << [id |-> "u1", role |-> "asha",
      number |-> NumStr(<<"+", "9", "1", "9", "8", "7", "6", "5", "4", "3", "2", "1", "0",
                          "1", "2", "3">>)],
     [id |-> "u2", role |-> "leader",
      number |-> NumStr(<<"+", "9", "1", "2", "3", "4", "5", "6", "7", "8", "9">>)],
     [id |-> "u3", role |-> "leader",
      number |-> NumStr(<<"i", "n", "v", "a", "l", "i", "d">>)],
     [id |-> "u4", role |-> "leader", number |-> NumNull],
     [id |-> "u5", role |-> "admin",
      number |-> NumStr(<<"+", "1", "2", "3", "4", "5", "6", "7", "8", "9">>)],
     [id |-> "u6", role |-> "villager",
      number |-> NumStr(<<"9", "1", "9", "8", "7", "6", "5", "4", "3", "2", "1", "0">>)],
     [id |-> "u7", role |-> "leader",
      number |-> NumStr(<<"+", "1", "2", "3", "4", "5", "6", "7", "8", "9", "0",
                          "1", "2", "3", "4", "5", "6">>)],
     [id |-> "u8", role |-> "leader", number |-> NumStr(<<>>)] >>

UserIdx == 1..Len(Users)

\* req.user as the upstream middleware attaches it for user i
Caller(i) == [id |-> Users[i].id, role |-> Users[i].role]

\* the callers: the submitter u1, a leader, the admin and a villager
Callers == { Caller(i) : i \in {1, 2, 5, 6} }

(* ---------------------------- request bodies -------------------------- *)

Fields == {"waterbodyName", "waterbodyId", "dateTime", "location", "latitude",
           "longitude", "photoUrl", "notes", "quality"}

\* the body {} : every field undefined
EmptyBody == [f \in Fields |-> JUndef]

\* a complete create body
FullBody ==
  [waterbodyName |-> JStr("Lake A"), waterbodyId |-> JStr("wb1"),
   dateTime |-> JStr("2025-09-11T10:00:00Z"), location |-> JStr("Village 1"),
   latitude |-> JNum("26.1"), longitude |-> JNum("91.7"),
   photoUrl |-> JStr("http://p/1.jpg"), notes |-> JStr("clear"),
   quality |-> JStr("good")]

RequiredFields == {"waterbodyName", "dateTime", "location", "photoUrl", "notes", "quality"}

\* bodies sent to createWaterTest: the quality spellings, required fields
\* missing or empty, optional fields missing or of the wrong type, a date
\* text that does not parse
CreateBodies ==
  { [FullBody EXCEPT !.quality = JStr(q)] :
      q \in {"good", "Medium", "HIGH", "Severe"} }
  \cup { [FullBody EXCEPT !.waterbodyName = JUndef, !.quality = JStr("Severe")],
         [FullBody EXCEPT !.quality = JUndef],
         [FullBody EXCEPT !.notes = JStr(""), !.quality = JStr("HIGH")],
         [FullBody EXCEPT !.waterbodyId = JUndef, !.latitude = JStr("26.1"),
                          !.longitude = JUndef, !.quality = JStr("Medium"),
                          !.dateTime = JStr("2025-09-11T15:30:00+05:30")],
         [FullBody EXCEPT !.dateTime = JStr("yesterday"), !.quality = JStr("Medium")] }

\* patch bodies sent to updateWaterTest
PatchBodies ==
  { EmptyBody,
    [EmptyBody EXCEPT !.waterbodyName = JStr("Lake B"), !.waterbodyId = JStr("")],
    [EmptyBody EXCEPT !.waterbodyId = JStr("wb2"), !.notes = JStr("")],
    [EmptyBody EXCEPT !.dateTime = JStr("2025-09-12T04:00:00Z"),
                      !.location = JStr("Village 2")],
    [EmptyBody EXCEPT !.dateTime = JStr("yesterday"), !.notes = JStr("muddy")],
    [EmptyBody EXCEPT !.latitude = JNum("0"), !.longitude = JStr("91.7"),
                      !.photoUrl = JStr("http://p/2.jpg")],
    [EmptyBody EXCEPT !.longitude = JNum("92.0"), !.notes = JStr("muddy")],
    [EmptyBody EXCEPT !.quality = JStr("HIGH")],
    [EmptyBody EXCEPT !.quality = JStr("Severe"), !.waterbodyName = JStr("Lake B"),
                      !.notes = JStr("muddy")] }

(* -------------------------------- state -------------------------------- *)

VARIABLES
  waterTests,    \* the WaterTest table: id -> row
  nextId,        \* the id the store gives the next WaterTest
  leaderAlerts,  \* the LeaderAlert table: rows in insertion order
  globalAlerts,  \* the GlobalAlert table: rows in insertion order
  req,           \* per client, its latest request: handler, inputs, position,
                 \* response, calls made
  issued         \* the number of requests received so far

vars == <<waterTests, nextId, leaderAlerts, globalAlerts, req, issued>>

NoUser == [id |-> "", role |-> ""]

\* a request not yet received
Idle ==
  [op |-> "none", pc |-> "idle", user |-> NoUser, id |-> 0, body |-> EmptyBody,
   rec |-> 0, idx |-> 0, chan |-> "", status |-> 0, items |-> <<>>,
   sent |-> <<>>, hc |-> "none", failed |-> ""]

\* the client has no request in flight
Free(r) == req[r].pc \in {"idle", "done"}

\* a request is received from the first client that has none in flight
CanStart(r) ==
  /\ issued < MaxReq
  /\ Free(r)
  /\ \A q \in Reqs : q < r => ~Free(q)

\* res.status(st).json(...)
Respond(q, st) == [q EXCEPT !.pc = "done", !.status = st]

\* an awaited call rejected: caught by the handler's catch, which answers 500
Rejected(q, call) == [Respond(q, 500) EXCEPT !.failed = call]

(* --------------------------- createWaterTest --------------------------- *)

\* the required-field test of createWaterTest
MissingRequired(b) == \E f \in RequiredFields : ~Truthy(b[f])

\* the role list with one role too many
CreateRoles_Wider == {"asha", "admin", "leader", "villager"}

CreateRoles == {"asha", "admin", "leader"}

\* the data of prisma.waterTest.create
CreateData(b, u) ==
  [waterbodyName |-> b.waterbodyName,
   waterbodyId |-> OrNull(b.waterbodyId),
   dateTime |-> NewDate(b.dateTime),
   location |-> b.location,
   latitude |-> IF b.latitude.t = "number" THEN b.latitude ELSE JNull,
   longitude |-> IF b.longitude.t = "number" THEN b.longitude ELSE JNull,
   photoUrl |-> b.photoUrl,
   notes |-> b.notes,
   quality |-> JStr(NormalizedQuality(b.quality)),
   ashaId |-> u.id]

\* the branches with a plain else in place of the test for high
AlertBranch_ElseGlobal(nq) ==
  IF nq = "medium" THEN "leaders" ELSE "global"

\* which alert branch a normalized quality takes
AlertBranch(nq) ==
  IF nq = "medium" THEN "leaders"
  ELSE IF nq = "high" THEN "global"
  ELSE "healthCard"

\* prisma.user.findMany({ where: { role: "leader" } })
Leaders == SelectSeq(Users, LAMBDA x : x.role = "leader")

\* the high branch reusing the leaders query
Recipients_LeadersOnly(branch) ==
  [i \in 1..Len(Leaders) |-> Leaders[i].number]

\* the numbers findMany returns: of the leaders, or of every user
Recipients(branch) ==
  IF branch = "leaders" THEN [i \in 1..Len(Leaders) |-> Leaders[i].number]
  ELSE [i \in 1..Len(Users) |-> Users[i].number]

RECURSIVE NextDeliverable(_, _)
\* the first recipient from position i on that is sent to; Len+1 if none
NextDeliverable(recips, i) ==
  IF i > Len(recips) THEN i
  ELSE IF Deliverable(recips[i]) THEN i
  ELSE NextDeliverable(recips, i + 1)

\* the handler entering a notification loop: on to the first send, or past
\* the loop to the health-card call
EnterLoop(q, branch) ==
  LET i == NextDeliverable(Recipients(branch), 1) IN
  IF i > Len(Recipients(branch))
  THEN [q EXCEPT !.pc = "healthCard"]
  ELSE [q EXCEPT !.pc = "send", !.idx = i, !.chan = "sms"]

\* The store holds the row an earlier createWaterTest of FullBody by the
\* submitter u1 left: quality good, so no alert came with it.
Init ==
  /\ waterTests = [i \in {1} |->
                     [id |-> 1, createdAt |-> 1,
                      data |-> CreateData(FullBody, Caller(1))]]
  /\ nextId = 2
  /\ leaderAlerts = <<>>
  /\ globalAlerts = <<>>
  /\ req = [r \in Reqs |-> Idle]
  /\ issued = 0

\* lines 8-58: validation, authorization, prisma.waterTest.create
createWaterTest(r, u, b) ==
  /\ CanStart(r)
  /\ issued' = issued + 1
  /\ LET q == [Idle EXCEPT !.op = "create", !.user = u, !.body = b] IN
     IF MissingRequired(b)
     THEN /\ req' = [req EXCEPT ![r] = Respond(q, 400)]
          /\ UNCHANGED <<waterTests, nextId, leaderAlerts, globalAlerts>>
     ELSE IF u.role \notin CreateRoles
     THEN /\ req' = [req EXCEPT ![r] = Respond(q, 403)]
          /\ UNCHANGED <<waterTests, nextId, leaderAlerts, globalAlerts>>
     ELSE IF NormalizedQuality(b.quality) \notin Qualities
     THEN /\ req' = [req EXCEPT ![r] = Respond(q, 400)]
          /\ UNCHANGED <<waterTests, nextId, leaderAlerts, globalAlerts>>
     ELSE \E ok \in BOOLEAN :
            IF ~ok \/ NewDate(b.dateTime) = InvalidDate
            THEN /\ req' = [req EXCEPT ![r] =
                      Rejected(q, IF ok THEN "invalid date" ELSE "waterTest.create")]
                 /\ UNCHANGED <<waterTests, nextId, leaderAlerts, globalAlerts>>
            ELSE /\ waterTests' =
                      [i \in DOMAIN waterTests \cup {nextId} |->
                         IF i = nextId
                         THEN [id |-> nextId, createdAt |-> nextId, data |-> CreateData(b, u)]
                         ELSE waterTests[i]]
                 /\ nextId' = nextId + 1
                 /\ req' = [req EXCEPT ![r] =
                      [q EXCEPT !.rec = nextId,
                                !.pc = AlertBranch(NormalizedQuality(b.quality))]]
                 /\ UNCHANGED <<leaderAlerts, globalAlerts>>

\* lines 78-91: the leaders are loaded and one LeaderAlert per leader is
\* inserted (no insert when there is no leader); then the first send
LeaderAlertRows(q) ==
  [i \in 1..Len(Leaders) |->
     [leaderId |-> Leaders[i].id,
      message |-> <<"Medium Water Quality at ", q.body.waterbodyName.v>>,
      waterTestId |-> q.rec]]

CreateLeaderAlerts(r) ==
  /\ req[r].pc = "leaders"
  /\ UNCHANGED issued
  /\ \E ok \in BOOLEAN :
       IF ~ok
       THEN /\ req' = [req EXCEPT ![r] = Rejected(req[r], "leaderAlert.createMany")]
            /\ UNCHANGED leaderAlerts
       ELSE /\ leaderAlerts' =
                 IF Len(Leaders) > 0 THEN leaderAlerts \o LeaderAlertRows(req[r])
                 ELSE leaderAlerts
            /\ req' = [req EXCEPT ![r] = EnterLoop(req[r], "leaders")]
  /\ UNCHANGED <<waterTests, nextId, globalAlerts>>

\* lines 107-116: one GlobalAlert is inserted and every user's number is
\* loaded; then the first send
GlobalAlertRow(q) ==
  [message |-> <<"High Risk Water Quality detected at ", q.body.waterbodyName.v>>,
   waterTestId |-> q.rec]

CreateGlobalAlert(r) ==
  /\ req[r].pc = "global"
  /\ UNCHANGED issued
  /\ \E ok \in BOOLEAN :
       IF ~ok
       THEN /\ req' = [req EXCEPT ![r] = Rejected(req[r], "globalAlert.create")]
            /\ UNCHANGED globalAlerts
       ELSE /\ globalAlerts' = Append(globalAlerts, GlobalAlertRow(req[r]))
            /\ req' = [req EXCEPT ![r] = EnterLoop(req[r], "global")]
  /\ UNCHANGED <<waterTests, nextId, leaderAlerts>>

\* the loop a create is in, from the quality it normalized
BranchOf(q) == AlertBranch(NormalizedQuality(q.body.quality))

\* the handler after a send resolved: the WhatsApp send to the same number,
\* or the next recipient that is sent to, or the health-card call
AfterSend(q) ==
  IF q.chan = "sms" THEN [q EXCEPT !.chan = "whatsapp"]
  ELSE LET recips == Recipients(BranchOf(q))
           i == NextDeliverable(recips, q.idx + 1)
       IN IF i > Len(recips)
          THEN [q EXCEPT !.pc = "healthCard", !.idx = i, !.chan = ""]
          ELSE [q EXCEPT !.idx = i, !.chan = "sms"]

\* each send in a try/catch of its own: the loop goes on to the next send
AfterFailedSend_Isolated(q) == [AfterSend(q) EXCEPT !.failed = "send"]

\* a send rejected: nothing in the loops catches it, so the handler's catch
\* answers 500
AfterFailedSend(q) == Rejected(q, "send")

\* lines 93-105 and 118-130: one awaited sendSMSWrapper or sendWhatsAppWrapper
SendNotification(r) ==
  /\ req[r].pc = "send"
  /\ UNCHANGED issued
  /\ LET q == [req[r] EXCEPT !.sent =
                 Append(@, [chan |-> req[r].chan,
                            to |-> Recipients(BranchOf(req[r]))[req[r].idx].chars])]
     IN \E ok \in BOOLEAN :
          req' = [req EXCEPT ![r] = IF ok THEN AfterSend(q) ELSE AfterFailedSend(q)]
  /\ UNCHANGED <<waterTests, nextId, leaderAlerts, globalAlerts>>

\* the upsert outside any try/catch of its own: a rejection reaches the
\* handler's catch
AfterHealthCard_Uncaught(q, ok) ==
  IF ok THEN [Respond(q, 201) EXCEPT !.hc = "ok"]
  ELSE [Rejected(q, "healthCard") EXCEPT !.hc = "failed"]

\* the response after createOrUpdateHealthCard resolved or rejected
AfterHealthCard(q, ok) ==
  [Respond(q, 201) EXCEPT !.hc = IF ok THEN "ok" ELSE "failed"]

\* lines 134-153: the health-card upsert in its own try/catch, then 201
HealthCard(r) ==
  /\ req[r].pc = "healthCard"
  /\ UNCHANGED issued
  /\ \E ok \in BOOLEAN :
       req' = [req EXCEPT ![r] = AfterHealthCard(req[r], ok)]
  /\ UNCHANGED <<waterTests, nextId, leaderAlerts, globalAlerts>>

(* ------------------- updateWaterTest / deleteWaterTest ----------------- *)

\* the ownership test with leaders let through as well
MayModify_LeadersToo(u, row) ==
  u.role \in {"admin", "leader"} \/ u.id = row.data.ashaId

\* req.user.role === "admin" || req.user.id === existing.ashaId
MayModify(u, row) == u.role = "admin" \/ u.id = row.data.ashaId

\* the quality of a patch is supplied and, normalized, not one of the three
InvalidPatchQuality(b) ==
  Truthy(b.quality) /\ NormalizedQuality(b.quality) \notin Qualities

\* the data object with waterbodyId assigned without the typeof test
Patched_AlwaysSetsWaterbodyId(d, b) ==
  [d EXCEPT
     !.waterbodyName = IF Truthy(b.waterbodyName) THEN b.waterbodyName ELSE @,
     !.waterbodyId = OrNull(b.waterbodyId),
     !.dateTime = IF Truthy(b.dateTime) THEN NewDate(b.dateTime) ELSE @,
     !.location = IF Truthy(b.location) THEN b.location ELSE @,
     !.latitude = IF b.latitude.t = "number" THEN b.latitude ELSE @,
     !.longitude = IF b.longitude.t = "number" THEN b.longitude ELSE @,
     !.photoUrl = IF Truthy(b.photoUrl) THEN b.photoUrl ELSE @,
     !.notes = IF Truthy(b.notes) THEN b.notes ELSE @,
     !.quality = IF Truthy(b.quality) THEN JStr(NormalizedQuality(b.quality)) ELSE @]

\* lines 181-196: the data object built from the patch body, applied to a
\* stored row's data
Patched(d, b) ==
  [d EXCEPT
     !.waterbodyName = IF Truthy(b.waterbodyName) THEN b.waterbodyName ELSE @,
     !.waterbodyId = IF b.waterbodyId.t # "undefined" THEN OrNull(b.waterbodyId) ELSE @,
     !.dateTime = IF Truthy(b.dateTime) THEN NewDate(b.dateTime) ELSE @,
     !.location = IF Truthy(b.location) THEN b.location ELSE @,
     !.latitude = IF b.latitude.t = "number" THEN b.latitude ELSE @,
     !.longitude = IF b.longitude.t = "number" THEN b.longitude ELSE @,
     !.photoUrl = IF Truthy(b.photoUrl) THEN b.photoUrl ELSE @,
     !.notes = IF Truthy(b.notes) THEN b.notes ELSE @,
     !.quality = IF Truthy(b.quality) THEN JStr(NormalizedQuality(b.quality)) ELSE @]

\* the data object carries a date the store refuses
BadPatchDate(b) == Truthy(b.dateTime) /\ NewDate(b.dateTime) = InvalidDate

\* lines 174-180 and 209-214: findUnique, then the 404 and 403 answers
\* shared by update and delete; "go" when the handler goes on to its write
LookupOutcome(u, id) ==
  IF id \notin DOMAIN waterTests THEN 404
  ELSE IF ~MayModify(u, waterTests[id]) THEN 403
  ELSE 0

\* the handler with the quality test after the write of the other fields
updateWaterTest_ChecksQualityLast(r, u, id, b) ==
  /\ CanStart(r)
  /\ issued' = issued + 1
  /\ LET q == [Idle EXCEPT !.op = "update", !.user = u, !.id = id, !.body = b] IN
     IF LookupOutcome(u, id) = 0 /\ InvalidPatchQuality(b)
     THEN /\ waterTests' = [waterTests EXCEPT ![id].data =
                              Patched(@, [b EXCEPT !.quality = JUndef])]
          /\ req' = [req EXCEPT ![r] = Respond(q, 400)]
     ELSE /\ req' = [req EXCEPT ![r] =
                 IF LookupOutcome(u, id) # 0 THEN Respond(q, LookupOutcome(u, id))
                 ELSE [q EXCEPT !.pc = "update"]]
          /\ UNCHANGED waterTests
  /\ UNCHANGED <<nextId, leaderAlerts, globalAlerts>>

\* lines 161-196: findUnique, 404, 403, the data object, 400
updateWaterTest(r, u, id, b) ==
  /\ CanStart(r)
  /\ issued' = issued + 1
  /\ LET q == [Idle EXCEPT !.op = "update", !.user = u, !.id = id, !.body = b] IN
     \E ok \in BOOLEAN :
       req' = [req EXCEPT ![r] =
         IF ~ok THEN Rejected(q, "waterTest.findUnique")
         ELSE IF LookupOutcome(u, id) # 0 THEN Respond(q, LookupOutcome(u, id))
         ELSE IF InvalidPatchQuality(b) THEN Respond(q, 400)
         ELSE [q EXCEPT !.pc = "update"]]
  /\ UNCHANGED <<waterTests, nextId, leaderAlerts, globalAlerts>>

\* lines 198-199: prisma.waterTest.update, which rejects when no row has the
\* id any more, then 200
UpdateWrite(r) ==
  /\ req[r].pc = "update"
  /\ UNCHANGED issued
  /\ \E ok \in BOOLEAN :
       IF ~ok
       THEN /\ req' = [req EXCEPT ![r] = Rejected(req[r], "waterTest.update")]
            /\ UNCHANGED waterTests
       ELSE IF req[r].id \notin DOMAIN waterTests
       THEN /\ req' = [req EXCEPT ![r] = Rejected(req[r], "no such row")]
            /\ UNCHANGED waterTests
       ELSE IF BadPatchDate(req[r].body)
       THEN /\ req' = [req EXCEPT ![r] = Rejected(req[r], "invalid date")]
            /\ UNCHANGED waterTests
       ELSE /\ waterTests' = [waterTests EXCEPT ![req[r].id].data =
                                 Patched(@, req[r].body)]
            /\ req' = [req EXCEPT ![r] = Respond(req[r], 200)]
  /\ UNCHANGED <<nextId, leaderAlerts, globalAlerts>>

\* lines 207-214: findUnique, 404, 403
deleteWaterTest(r, u, id) ==
  /\ CanStart(r)
  /\ issued' = issued + 1
  /\ LET q == [Idle EXCEPT !.op = "delete", !.user = u, !.id = id] IN
     \E ok \in BOOLEAN :
       req' = [req EXCEPT ![r] =
         IF ~ok THEN Rejected(q, "waterTest.findUnique")
         ELSE IF LookupOutcome(u, id) # 0 THEN Respond(q, LookupOutcome(u, id))
         ELSE [q EXCEPT !.pc = "delete"]]
  /\ UNCHANGED <<waterTests, nextId, leaderAlerts, globalAlerts>>

\* lines 215-216: prisma.waterTest.delete, which rejects when no row has the
\* id any more, then 200
DeleteWrite(r) ==
  /\ req[r].pc = "delete"
  /\ UNCHANGED issued
  /\ \E ok \in BOOLEAN :
       IF ~ok
       THEN /\ req' = [req EXCEPT ![r] = Rejected(req[r], "waterTest.delete")]
            /\ UNCHANGED waterTests
       ELSE IF req[r].id \notin DOMAIN waterTests
       THEN /\ req' = [req EXCEPT ![r] = Rejected(req[r], "no such row")]
            /\ UNCHANGED waterTests
       ELSE /\ waterTests' = [i \in DOMAIN waterTests \ {req[r].id} |-> waterTests[i]]
            /\ req' = [req EXCEPT ![r] = Respond(req[r], 200)]
  /\ UNCHANGED <<nextId, leaderAlerts, globalAlerts>>

(* ------------------------------- listings ------------------------------ *)

RECURSIVE DescendingIds(_)
\* the ids of a set of rows, newest first (orderBy createdAt desc)
DescendingIds(ids) ==
  IF ids = {} THEN <<>>
  ELSE LET m == CHOOSE i \in ids :
                  \A j \in ids : waterTests[j].createdAt <= waterTests[i].createdAt
       IN <<m>> \o DescendingIds(ids \ {m})

\* lines 223-235
listAllWaterTests(r, u) ==
  /\ CanStart(r)
  /\ issued' = issued + 1
  /\ LET q == [Idle EXCEPT !.op = "listAll", !.user = u] IN
     req' = [req EXCEPT ![r] =
       IF u.role # "admin" THEN Respond(q, 403)
       ELSE [Respond(q, 200) EXCEPT !.items = DescendingIds(DOMAIN waterTests)]]
  /\ UNCHANGED <<waterTests, nextId, leaderAlerts, globalAlerts>>

\* lines 238-263: getUserWaterTests and its duplicate getWaterTestsByUser
getUserWaterTests(r, u) ==
  /\ CanStart(r)
  /\ issued' = issued + 1
  /\ LET q == [Idle EXCEPT !.op = "listOwn", !.user = u] IN
     req' = [req EXCEPT ![r] =
       [Respond(q, 200) EXCEPT !.items =
          DescendingIds({i \in DOMAIN waterTests : waterTests[i].data.ashaId = u.id})]]
  /\ UNCHANGED <<waterTests, nextId, leaderAlerts, globalAlerts>>

(* ---------------------------- specification ---------------------------- *)

\* the ids a path parameter names: the row the store starts with, and ids
\* of rows created since, deleted since, or never created
PathIds == 1..MaxReq

\* the create requests received: every body from the submitter u1, and from
\* the leader, the admin and the villager the bodies that tell their roles
\* apart
CreateRequests ==
  { [user |-> Caller(1), body |-> b] : b \in CreateBodies }
  \cup { [user |-> Caller(2), body |-> FullBody],
         [user |-> Caller(5), body |-> [FullBody EXCEPT !.quality = JStr("GOOD")]] }
  \cup { [user |-> Caller(6), body |-> b] :
           b \in { FullBody,
                   [FullBody EXCEPT !.quality = JStr("Severe")],
                   [FullBody EXCEPT !.waterbodyName = JUndef, !.quality = JStr("Severe")] } }

\* the update requests received: every patch from the submitter u1, and from
\* the others the patches that tell their roles apart
UpdateRequests ==
  { [user |-> Caller(1), body |-> b] : b \in PatchBodies }
  \cup { [user |-> Caller(5), body |-> b] :
           b \in { [EmptyBody EXCEPT !.quality = JStr("HIGH")],
                   [EmptyBody EXCEPT !.quality = JStr("Severe"),
                                     !.waterbodyName = JStr("Lake B"),
                                     !.notes = JStr("muddy")] } }
  \cup { [user |-> Caller(2),
          body |-> [EmptyBody EXCEPT !.longitude = JNum("92.0"), !.notes = JStr("muddy")]],
         [user |-> Caller(6),
          body |-> [EmptyBody EXCEPT !.quality = JStr("Severe"),
                                     !.waterbodyName = JStr("Lake B"),
                                     !.notes = JStr("muddy")]] }

Next ==
  \E r \in Reqs :
    \/ \E q \in CreateRequests : createWaterTest(r, q.user, q.body)
    \/ CreateLeaderAlerts(r)
    \/ CreateGlobalAlert(r)
    \/ SendNotification(r)
    \/ HealthCard(r)
    \/ \E q \in UpdateRequests, id \in PathIds : updateWaterTest(r, q.user, id, q.body)
    \/ UpdateWrite(r)
    \/ \E u \in Callers, id \in PathIds : deleteWaterTest(r, u, id)
    \/ DeleteWrite(r)
    \/ \E u \in {Caller(1), Caller(5)} : listAllWaterTests(r, u)
    \/ \E u \in {Caller(1), Caller(5)} : getUserWaterTests(r, u)

Spec == Init /\ [][Next]_vars

(* ------------------------- vocabulary of the claims -------------------- *)

\* the tables a request can write
store == <<waterTests, nextId, leaderAlerts, globalAlerts>>

\* the step is the first of a request just received from the client
FirstStep(r) == issued' = issued + 1 /\ CanStart(r)

\* the client whose request takes the step
Stepping(r) == FirstStep(r) \/ req'[r] # req[r]

Done(r) == req[r].pc = "done"

\* '+' followed by 10 to 15 digits
IsE164(number) ==
  /\ number.t = "string"
  /\ Len(number.chars) \in 11..16
  /\ Head(number.chars) = "+"
  /\ \A i \in 2..Len(number.chars) :
       number.chars[i] \in {"0", "1", "2", "3", "4", "5", "6", "7", "8", "9"}

\* the quality a create normalized
QualityOf(r) == NormalizedQuality(req[r].body.quality)

\* how many LeaderAlert rows name this leader and this test
LeaderAlertCount(leaderId, testId) ==
  Cardinality({i \in DOMAIN leaderAlerts :
                 /\ leaderAlerts[i].leaderId = leaderId
                 /\ leaderAlerts[i].waterTestId = testId})

LeaderAlertsOf(testId) ==
  {i \in DOMAIN leaderAlerts : leaderAlerts[i].waterTestId = testId}

GlobalAlertsOf(testId) ==
  {i \in DOMAIN globalAlerts : globalAlerts[i].waterTestId = testId}

\* how many sends of a request went to a number over a channel
SendCount(r, chan, chars) ==
  Cardinality({i \in DOMAIN req[r].sent :
                 req[r].sent[i] = [chan |-> chan, to |-> chars]})

\* the numbers a request sent to
SentTo(r) == {req[r].sent[i].to : i \in DOMAIN req[r].sent}

\* each number sent to got one SMS and one WhatsApp message
OneOfEach(r) ==
  \A n \in SentTo(r) : SendCount(r, "sms", n) = 1 /\ SendCount(r, "whatsapp", n) = 1

\* the valid numbers of the leaders, and of all users
ValidLeaderNumbers ==
  {Users[i].number.chars : i \in {j \in UserIdx :
       Users[j].role = "leader" /\ IsE164(Users[j].number)}}

ValidUserNumbers ==
  {Users[i].number.chars : i \in {j \in UserIdx : IsE164(Users[j].number)}}

(* -------------------------------- C1 ----------------------------------- *)

\* the caller is admin or the submitter of the row
AdminOrOwner(u, row) == u.role = "admin" \/ u.id = row.data.ashaId

\* C1: a WaterTest row is changed or removed by an update or delete request
\* only when that request's caller is admin or the row's ashaId; an update or
\* delete of an existing row by any other caller is answered 403 and leaves
\* every table as it was.
C1_OnlyAdminOrOwnerModifies ==
  [][/\ \A id \in DOMAIN waterTests :
          (id \notin DOMAIN waterTests' \/ waterTests'[id] # waterTests[id])
            => \E r \in Reqs :
                 /\ Stepping(r)
                 /\ ~FirstStep(r)
                 /\ req[r].op \in {"update", "delete"}
                 /\ req[r].id = id
                 /\ AdminOrOwner(req[r].user, waterTests[id])
     /\ \A r \in Reqs :
          ( /\ FirstStep(r)
            /\ req'[r].op \in {"update", "delete"}
            /\ req'[r].id \in DOMAIN waterTests
            /\ ~AdminOrOwner(req'[r].user, waterTests[req'[r].id])
            /\ req'[r].failed = "" )
          => /\ req'[r].status = 403
             /\ req'[r].pc = "done"
             /\ UNCHANGED store
    ]_vars

\* the second of two requests: a leader who did not submit row 1 asked to
\* update it with a patch that sets notes and was answered 403, and the row
\* is as it was created
C1_Witness ==
  /\ issued = MaxReq
  /\ 1 \in DOMAIN waterTests
  /\ waterTests[1].data = CreateData(FullBody, [id |-> "u1", role |-> "asha"])
  /\ \E r \in Reqs :
       /\ Done(r) /\ req[r].op = "update" /\ req[r].id = 1
       /\ req[r].user.role = "leader" /\ req[r].status = 403
       /\ Truthy(req[r].body.notes)

(* -------------------------------- C2 ----------------------------------- *)

\* C2: when a create of normalized quality medium is answered 201, the
\* LeaderAlert table holds exactly one row for the new test per user of role
\* leader, valid number or not, and none for any other user; and the sends of
\* the request went, one SMS and one WhatsApp each, to exactly the leaders
\* whose number is '+' followed by 10 to 15 digits.
C2_MediumAlertsEveryLeader ==
  \A r \in Reqs :
    (Done(r) /\ req[r].op = "create" /\ req[r].status = 201 /\ QualityOf(r) = "medium")
      => /\ \A i \in UserIdx :
              LeaderAlertCount(Users[i].id, req[r].rec) =
                IF Users[i].role = "leader" THEN 1 ELSE 0
         /\ \A i \in LeaderAlertsOf(req[r].rec) :
              \E j \in UserIdx : Users[j].id = leaderAlerts[i].leaderId
         /\ GlobalAlertsOf(req[r].rec) = {}
         /\ SentTo(r) = ValidLeaderNumbers
         /\ OneOfEach(r)

\* a medium create answered 201: among the leaders alerted are one with no
\* number and one with a malformed number, and neither was sent to
C2_Witness ==
  \E r \in Reqs :
    /\ Done(r) /\ req[r].op = "create" /\ req[r].status = 201
    /\ QualityOf(r) = "medium"
    /\ req[r].sent # <<>>
    /\ \E i, j \in UserIdx :
         /\ Users[i].role = "leader" /\ Users[i].number.t = "null"
         /\ LeaderAlertCount(Users[i].id, req[r].rec) = 1
         /\ Users[j].role = "leader" /\ Users[j].number.t = "string"
         /\ ~IsE164(Users[j].number)
         /\ LeaderAlertCount(Users[j].id, req[r].rec) = 1
         /\ Users[j].number.chars \notin SentTo(r)

(* -------------------------------- C3 ----------------------------------- *)

\* C3: when a create of normalized quality high is answered 201, the
\* GlobalAlert table holds exactly one row for the new test and the
\* LeaderAlert table none; and the sends of the request went, one SMS and one
\* WhatsApp each, to exactly the users, of any role, whose number is valid.
C3_HighAlertsEveryone ==
  \A r \in Reqs :
    (Done(r) /\ req[r].op = "create" /\ req[r].status = 201 /\ QualityOf(r) = "high")
      => /\ Cardinality(GlobalAlertsOf(req[r].rec)) = 1
         /\ LeaderAlertsOf(req[r].rec) = {}
         /\ SentTo(r) = ValidUserNumbers
         /\ OneOfEach(r)

\* a high create answered 201 that sent to a user who is no leader
C3_Witness ==
  \E r \in Reqs :
    /\ Done(r) /\ req[r].op = "create" /\ req[r].status = 201
    /\ QualityOf(r) = "high"
    /\ Cardinality(GlobalAlertsOf(req[r].rec)) = 1
    /\ \E i \in UserIdx :
         Users[i].role # "leader" /\ Users[i].number.chars \in SentTo(r)
    /\ \E i \in UserIdx :
         Users[i].number.t = "string" /\ Users[i].number.chars \notin SentTo(r)

(* -------------------------------- C4 ----------------------------------- *)

\* the request is a create whose normalized quality is medium or high
AlertingCreate(q) ==
  q.op = "create" /\ NormalizedQuality(q.body.quality) \in {"medium", "high"}

\* C4: a step of any request other than a create of normalized quality medium
\* or high (a create of quality good, an update whatever quality it sets, a
\* delete, a listing) adds no LeaderAlert and no GlobalAlert and makes no
\* send; a step of an update, delete or listing does not call the health-card
\* upsert.  So the alert tables change only in steps of creates.
C4_FanOutOnlyOnAlertingCreate ==
  [][\A r \in Reqs :
       Stepping(r) =>
         /\ ~AlertingCreate(req'[r]) =>
              /\ UNCHANGED <<leaderAlerts, globalAlerts>>
              /\ req'[r].sent = <<>>
         /\ req'[r].op # "create" => req'[r].hc = "none"
    ]_vars

\* an update that set quality high answered 200 and a create of quality good
\* answered 201, with both alert tables still empty
C4_Witness ==
  /\ leaderAlerts = <<>>
  /\ globalAlerts = <<>>
  /\ \E r, c \in Reqs :
       /\ Done(r) /\ req[r].op = "update" /\ req[r].status = 200
       /\ req[r].id \in DOMAIN waterTests
       /\ waterTests[req[r].id].data.quality = JStr("high")
       /\ Done(c) /\ req[c].op = "create" /\ req[c].status = 201
       /\ QualityOf(c) = "good" /\ req[c].sent = <<>>

(* -------------------------------- C5 ----------------------------------- *)

\* C5: a request is answered 400, 403 or 404 in its first step, before any
\* write: the step that gives the answer leaves the WaterTest, LeaderAlert and
\* GlobalAlert tables as they were, and the request has made no send and no
\* health-card call.  So an update by the submitter with an invalid quality
\* applies none of the other fields of its patch.
C5_RefusalsTouchNothing ==
  [][\A r \in Reqs :
       (Stepping(r) /\ req'[r].status \in {400, 403, 404})
         => /\ FirstStep(r)
            /\ UNCHANGED store
            /\ req'[r].sent = <<>>
            /\ req'[r].hc = "none"
            /\ req'[r].rec = 0
    ]_vars

\* the submitter of row 1 sent a patch with a new name, new notes and an
\* invalid quality, was answered 400, and the row is as it was created
C5_Witness ==
  /\ 1 \in DOMAIN waterTests
  /\ waterTests[1].data = CreateData(FullBody, [id |-> "u1", role |-> "asha"])
  /\ \E r \in Reqs :
       /\ Done(r) /\ req[r].op = "update" /\ req[r].id = 1
       /\ req[r].user.id = "u1" /\ req[r].status = 400
       /\ Truthy(req[r].body.waterbodyName)
       /\ req[r].body.waterbodyName # FullBody.waterbodyName
       /\ Truthy(req[r].body.notes)

(* -------------------------------- C6 ----------------------------------- *)

\* C6: the step in which the health-card upsert is called answers 201 whether
\* the upsert resolved or rejected, and leaves the WaterTest, LeaderAlert and
\* GlobalAlert tables as they were: the new row and its alerts are not rolled
\* back.
C6_HealthCardFailureIsSwallowed ==
  [][\A r \in Reqs :
       (Stepping(r) /\ ~FirstStep(r) /\ req'[r].hc # req[r].hc)
         => /\ req'[r].status = 201
            /\ req'[r].pc = "done"
            /\ req'[r].rec = req[r].rec
            /\ req'[r].rec # 0
            /\ UNCHANGED store
    ]_vars

\* a medium create whose health-card upsert rejected: answered 201, its row
\* stored and its leader alerts in the table
C6_Witness ==
  \E r \in Reqs :
    /\ Done(r) /\ req[r].op = "create" /\ req[r].hc = "failed"
    /\ req[r].status = 201
    /\ req[r].rec \in DOMAIN waterTests
    /\ LeaderAlertsOf(req[r].rec) # {}

(* -------------------------------- C7 ----------------------------------- *)

\* every required field of the body is a non-empty string
AllRequiredSupplied(b) ==
  \A f \in {"waterbodyName", "dateTime", "location", "photoUrl", "notes", "quality"} :
    b[f].t = "string" /\ b[f].v # ""

NotACreateRole(u) == u.role \notin {"asha", "admin", "leader"}

\* C7 as claimed: a create by a caller whose role is none of asha, admin,
\* leader is answered 403 whatever the body.
C7_ForbiddenWhateverTheBody ==
  \A r \in Reqs :
    (Done(r) /\ req[r].op = "create" /\ NotACreateRole(req[r].user))
      => req[r].status = 403

\* C7 amended: a create by a caller whose role is none of asha, admin, leader
\* is answered 403 when every required field is supplied, an invalid quality
\* included, and 400 when a required field is missing or empty; either way
\* nothing is stored.
C7_ForbiddenAfterRequiredFields ==
  \A r \in Reqs :
    (Done(r) /\ req[r].op = "create" /\ NotACreateRole(req[r].user))
      => /\ req[r].status = IF AllRequiredSupplied(req[r].body) THEN 403 ELSE 400
         /\ req[r].rec = 0

\* a villager was answered 403 for a complete body with an invalid quality,
\* and nothing was stored
C7_Witness ==
  \E r \in Reqs :
    /\ Done(r) /\ req[r].op = "create" /\ NotACreateRole(req[r].user)
    /\ AllRequiredSupplied(req[r].body)
    /\ QualityOf(r) \notin {"good", "medium", "high"}
    /\ req[r].status = 403
    /\ nextId = 2

(* -------------------------------- C8 ----------------------------------- *)

\* C8: the step in which an update is answered 200 leaves, in the row updated,
\* every field that is absent from the patch body as it was, and leaves id,
\* ashaId and createdAt as they were; no step of an update changes id, ashaId
\* or createdAt of any row, or any other row.
C8_OmittedFieldsKept ==
  [][\A r \in Reqs :
     /\ (FirstStep(r) /\ req'[r].op = "update") => UNCHANGED waterTests
     /\ (Stepping(r) /\ ~FirstStep(r) /\ req[r].op = "update") =>
         /\ DOMAIN waterTests' = DOMAIN waterTests
         /\ \A id \in DOMAIN waterTests :
              /\ waterTests'[id].id = waterTests[id].id
              /\ waterTests'[id].createdAt = waterTests[id].createdAt
              /\ waterTests'[id].data.ashaId = waterTests[id].data.ashaId
              /\ id # req[r].id => waterTests'[id] = waterTests[id]
         /\ req'[r].status = 200 =>
              /\ req[r].id \in DOMAIN waterTests
              /\ \A f \in Fields :
                   req[r].body[f].t = "undefined" =>
                     waterTests'[req[r].id].data[f] = waterTests[req[r].id].data[f]
    ]_vars

\* an update answered 200 changed the notes of row 1 and nothing else: its
\* patch named no other field that takes effect
C8_Witness ==
  \E r \in Reqs :
    /\ Done(r) /\ req[r].op = "update" /\ req[r].status = 200 /\ req[r].id = 1
    /\ req[r].body.waterbodyId = JUndef
    /\ req[r].body.quality = JUndef
    /\ req[r].body.notes = JStr("muddy")
    /\ 1 \in DOMAIN waterTests
    /\ waterTests[1].data.notes = JStr("muddy")
    /\ waterTests[1].data.waterbodyId = JStr("wb1")
    /\ waterTests[1].data.quality = JStr("good")
    /\ waterTests[1].data.waterbodyName = JStr("Lake A")

(* -------------------------------- C9 ----------------------------------- *)

\* C9 as claimed: whenever an update or delete gives its answer while no row
\* has its id, and no call to the store failed for a reason of the store's
\* own, the answer is 404 and no table is changed.
C9_AbsentIdIs404 ==
  [][\A r \in Reqs :
       ( /\ Stepping(r)
         /\ req'[r].pc = "done"
         /\ req'[r].op \in {"update", "delete"}
         /\ req'[r].id \notin DOMAIN waterTests
         /\ req'[r].failed \in {"", "no such row"} )
       => /\ req'[r].status = 404
          /\ UNCHANGED store
    ]_vars

(* -------------------------------- C10 ---------------------------------- *)

RECURSIVE SendsInOrder(_)
\* for each number of a list that is valid, in the order of the list, an SMS
\* and then a WhatsApp message
SendsInOrder(numbers) ==
  IF numbers = <<>> THEN <<>>
  ELSE (IF IsE164(Head(numbers))
        THEN << [chan |-> "sms", to |-> Head(numbers).chars],
                [chan |-> "whatsapp", to |-> Head(numbers).chars] >>
        ELSE <<>>) \o SendsInOrder(Tail(numbers))

\* the numbers a create notifies, in the order of the user table
NotifiedNumbers(q) ==
  IF NormalizedQuality(q.body.quality) = "medium"
  THEN LET ls == SelectSeq(Users, LAMBDA x : x.role = "leader")
       IN [i \in 1..Len(ls) |-> ls[i].number]
  ELSE IF NormalizedQuality(q.body.quality) = "high"
  THEN [i \in 1..Len(Users) |-> Users[i].number]
  ELSE <<>>

IsPrefix(a, b) == Len(a) <= Len(b) /\ a = SubSeq(b, 1, Len(a))

\* C10: the sends of a create are, at every moment, the first so many of the
\* sends due: per valid recipient in turn, SMS then WhatsApp, one more send
\* per step.  The step in which a send rejects answers 500 with the
\* health-card upsert not called and every table as it was, so the row and
\* the alerts already written stay; and a request that has answered takes no
\* further step (its client's next step is a new request), so the remaining
\* recipients are never sent to.
C10_SendFailureAbortsFanOut ==
  [][\A r \in Reqs :
       /\ (req[r].pc = "done" /\ Stepping(r)) => FirstStep(r)
       /\ FirstStep(r) => req'[r].sent = <<>>
       /\ (Stepping(r) /\ ~FirstStep(r) /\ req'[r].op = "create") =>
            /\ IsPrefix(req'[r].sent, SendsInOrder(NotifiedNumbers(req'[r])))
            /\ Len(req'[r].sent) <= Len(req[r].sent) + 1
            /\ IsPrefix(req[r].sent, req'[r].sent)
            /\ req'[r].failed = "send" =>
                 /\ req'[r].status = 500
                 /\ req'[r].pc = "done"
                 /\ req'[r].hc = "none"
                 /\ Len(req'[r].sent) = Len(req[r].sent) + 1
                 /\ UNCHANGED store
                 /\ LeaderAlertsOf(req[r].rec) \cup GlobalAlertsOf(req[r].rec) # {}
    ]_vars

\* a high create answered 500 after its first SMS rejected: one send made of
\* the four due, no health-card call, and its row and GlobalAlert stored
C10_Witness ==
  \E r \in Reqs :
    /\ Done(r) /\ req[r].op = "create" /\ req[r].failed = "send"
    /\ req[r].status = 500
    /\ QualityOf(r) = "high"
    /\ Len(req[r].sent) = 1
    /\ Len(SendsInOrder(NotifiedNumbers(req[r]))) > 2
    /\ req[r].hc = "none"
    /\ req[r].rec \in DOMAIN waterTests
    /\ Cardinality(GlobalAlertsOf(req[r].rec)) = 1

====
